---- MODULE Spec2Model ----
(***************************************************************************)
(* ImageTensorGenerator: the command-line boundary (CommandLineProcessor)  *)
(* and main(), which loads one image, prepares a tensor of the configured  *)
(* element type and dumps it into the output file.                         *)
(*                                                                         *)
(* The model follows main() statement by statement.  The file system is    *)
(* part of the state, because main() checks the output path in             *)
(* ValidateOutputFile and opens it much later: another process may create  *)
(* the file in between.  std::ofstream is modelled with its buffer: what   *)
(* operator<< accepted is not yet on disk, and close() flushes the rest.   *)
(*                                                                         *)
(* PrepareImageTensor, GetNormalizationParameters and WriteImageTensorImpl *)
(* are declared in ImageTensorGenerator.hpp, which is not among the        *)
(* sources; they are modelled from the specification (sections 4.1-4.4).   *)
(***************************************************************************)
EXTENDS Integers, Sequences, FiniteSets, TLC

\* Width in bits of int / unsigned int.  The program has 32; the model is
\* scaled down so that INT_MAX, the wrap-around of a negative value and the
\* element counts all stay small.
WordBits == 4

RECURSIVE Pow2(_)
Pow2(n) == IF n = 0 THEN 1 ELSE 2 * Pow2(n - 1)

UINT_RANGE == Pow2(WordBits)
INT_MAX == Pow2(WordBits - 1) - 1
INT_MIN == 0 - Pow2(WordBits - 1)

----------------------------------------------------------------------------
\* Strings that are parsed character by character are sequences of
\* one-character strings.

DigitChars == {"0", "1", "2", "3", "4", "5", "6", "7", "8", "9"}

DigitVal(c) ==
    CASE c = "0" -> 0 [] c = "1" -> 1 [] c = "2" -> 2 [] c = "3" -> 3
      [] c = "4" -> 4 [] c = "5" -> 5 [] c = "6" -> 6 [] c = "7" -> 7
      [] c = "8" -> 8 [] c = "9" -> 9

\* Leading white space is skipped by std::stoi (strtol).
RECURSIVE SkipSpace(_)
SkipSpace(s) ==
    IF s # <<>> /\ Head(s) = " " THEN SkipSpace(Tail(s)) ELSE s

\* The longest prefix of digits of s.
RECURSIVE DigitPrefix(_)
DigitPrefix(s) ==
    IF s # <<>> /\ Head(s) \in DigitChars
    THEN <<Head(s)>> \o DigitPrefix(Tail(s))
    ELSE <<>>

\* The value of a sequence of digits, acc being the value read so far.
RECURSIVE DigitsValue(_, _)
DigitsValue(ds, acc) ==
    IF ds = <<>> THEN acc
    ELSE DigitsValue(Tail(ds), 10 * acc + DigitVal(Head(ds)))

\* std::stoi(str): skips white space, takes an optional sign and the longest
\* run of digits, ignores whatever follows.  No digits: std::invalid_argument.
\* A value outside int: std::out_of_range.
stoi(str) ==
    LET s0 == SkipSpace(str)
        neg == s0 # <<>> /\ Head(s0) = "-"
        s1 == IF s0 # <<>> /\ Head(s0) \in {"-", "+"} THEN Tail(s0) ELSE s0
        ds == DigitPrefix(s1)
        mag == DigitsValue(ds, 0)
        v == IF neg THEN 0 - mag ELSE mag
    IN  IF ds = <<>> THEN [threw |-> "invalid_argument", value |-> 0]
        ELSE IF v > INT_MAX \/ v < INT_MIN
             THEN [threw |-> "out_of_range", value |-> 0]
             ELSE [threw |-> "none", value |-> v]

\* static_cast<unsigned int>(int): the value modulo 2^WordBits.
static_cast_unsigned(v) == v % UINT_RANGE

\* CommandLineProcessor::GetNewWidth / GetNewHeight.
GetNewWidth(m_NewWidth) ==
    LET r == stoi(m_NewWidth)
    IN  [threw |-> r.threw, value |-> static_cast_unsigned(r.value)]

GetNewHeight(m_NewHeight) ==
    LET r == stoi(m_NewHeight)
    IN  [threw |-> r.threw, value |-> static_cast_unsigned(r.value)]

\* CommandLineProcessor::GetLayout.
GetLayout(m_Layout) ==
    IF m_Layout = "NHWC" THEN [threw |-> "none", value |-> "NHWC"]
    ELSE IF m_Layout = "NCHW" THEN [threw |-> "none", value |-> "NCHW"]
    ELSE [threw |-> "armnn::Exception", value |-> "unset"]

\* CommandLineProcessor::GetModelFormat.
GetModelFormat(m_ModelFormat) ==
    IF m_ModelFormat = "caffe" THEN [threw |-> "none", value |-> "Caffe"]
    ELSE IF m_ModelFormat = "tensorflow"
         THEN [threw |-> "none", value |-> "TensorFlow"]
    ELSE IF m_ModelFormat = "tflite" THEN [threw |-> "none", value |-> "TFLite"]
    ELSE [threw |-> "armnn::Exception", value |-> "unset"]

\* CommandLineProcessor::GetOutputType.
GetOutputType(m_OutputType) ==
    IF m_OutputType = "float" THEN [threw |-> "none", value |-> "Float32"]
    ELSE IF m_OutputType = "int" THEN [threw |-> "none", value |-> "Signed32"]
    ELSE IF m_OutputType = "qasymm8"
         THEN [threw |-> "none", value |-> "QAsymmU8"]
    ELSE [threw |-> "armnn::Exception", value |-> "unset"]

----------------------------------------------------------------------------
\* The state of a path in the file system.
\*   input path : "missing", "dir" or "file" (with what the decoder makes of it)
\*   output path: "noparent" (the directory of the path does not exist),
\*                "absent", "dir", "original" (a file somebody else wrote,
\*                its contents intact) or "tensor" (a file this run created
\*                or truncated, holding `length` tensor elements).

\* boost::filesystem::exists / is_directory on the two paths.
InputExists(p) == p.kind \in {"dir", "file"}
InputIsDirectory(p) == p.kind = "dir"
OutputExists(p) == p.kind \in {"dir", "original", "tensor"}
OutputIsDirectory(p) == p.kind = "dir"
OutputParentExists(p) == p.kind # "noparent"

\* CommandLineProcessor::ValidateInputFile: "" when the name is accepted,
\* otherwise the message written to std::cerr.
ValidateInputFile(inputFileName, p) ==
    IF inputFileName = "" THEN "No input file name specified"
    ELSE IF ~InputExists(p) THEN "Input file does not exist"
    ELSE IF InputIsDirectory(p) THEN "Input file is a directory"
    ELSE ""

\* CommandLineProcessor::ValidateLayout.
ValidateLayout(layout) ==
    IF layout = "" THEN "No layout specified"
    ELSE IF layout \notin {"NHWC", "NCHW"} THEN "Layout is not supported"
    ELSE ""

\* ValidateOutputFile without its test of exists(outputFileName).
ValidateOutputFile_NoExistsCheck(outputFileName, p) ==
    IF outputFileName = "" THEN "No output file name specified"
    ELSE IF OutputIsDirectory(p) THEN "Output file is a directory"
    ELSE IF ~OutputParentExists(p) THEN "Output directory does not exist"
    ELSE ""

\* CommandLineProcessor::ValidateOutputFile.
ValidateOutputFile(outputFileName, p) ==
    IF outputFileName = "" THEN "No output file name specified"
    ELSE IF OutputExists(p) THEN "Output file already exists"
    ELSE IF OutputIsDirectory(p) THEN "Output file is a directory"
    ELSE IF ~OutputParentExists(p) THEN "Output directory does not exist"
    ELSE ""

----------------------------------------------------------------------------
\* What the command line can hold.

\* boost::program_options outcome: "ok", "help" (-h given) or "error"
\* (po::error: a required option is missing, an unknown option, ...).
ParseOutcomes == {"ok", "help", "error"}

InputNames == {"", "in.png"}
OutputNames == {"", "out/tensor.raw"}
ModelFormatArgs == {"caffe", "tensorflow", "tflite", "onnx"}
OutputTypeArgs == {"float", "int", "qasymm8", "double"}
LayoutArgs == {"NHWC", "NCHW", "NCWH"}
\* default_value("0") of --new-width and --new-height: what the field holds
\* when the option is not given.
DefaultNewWidth == <<"0">>
DefaultNewHeight == <<"0">>
NewWidthArgs ==
    {DefaultNewWidth, <<"4">>, <<"-", "1">>, <<"a", "b", "c">>, <<"4", "x">>,
     <<"9", "9">>}
NewHeightArgs == {DefaultNewHeight, <<"4">>, <<"-", "2">>}

\* The fields of a default-constructed CommandLineProcessor.
EmptyCommandLine ==
    [m_InputFileName |-> "", m_Layout |-> "", m_OutputFileName |-> "",
     m_NewWidth |-> <<>>, m_NewHeight |-> <<>>, m_ModelFormat |-> "",
     m_OutputType |-> ""]

\* The input path: missing, a directory, a file the decoder rejects, or an
\* image of the given width and height.
InputStates ==
    {[kind |-> "missing", decodable |-> FALSE, width |-> 0, height |-> 0],
     [kind |-> "dir", decodable |-> FALSE, width |-> 0, height |-> 0],
     [kind |-> "file", decodable |-> FALSE, width |-> 0, height |-> 0],
     [kind |-> "file", decodable |-> TRUE, width |-> 2, height |-> 2],
     [kind |-> "file", decodable |-> TRUE, width |-> 1, height |-> 2]}

OutputStates ==
    {[kind |-> k, length |-> 0] : k \in {"noparent", "absent", "dir", "original"}}

----------------------------------------------------------------------------
\* const unsigned int batchSize = 1;
batchSize == 1

\* Channel count of the pixel buffer and of the tensor (RGB).
Channels == 3

\* GetNormalizationParameters(modelFormat, outputType): a fixed record per
\* (front-end, element type) pair, total over both enumerations.
GetNormalizationParameters(frontEnd, elementType) ==
    [frontEnd |-> frontEnd, elementType |-> elementType, channels |-> Channels]

\* Resizer: a target dimension of zero keeps the source dimension.
ResolveDimension(target, source) == IF target = 0 THEN source ELSE target

\* PrepareImageTensor<ElemType>(imagePath, newWidth, newHeight, normParams,
\* batchSize, outputLayout) on a decodable image: load, resize, normalize.
\* The values of the elements are not modelled, their number and type are.
PrepareImageTensor(ElemType, img, nWidth, nHeight, params, batch, layout) ==
    LET w == ResolveDimension(nWidth, img.width)
        h == ResolveDimension(nHeight, img.height)
    IN  [elemType |-> ElemType, width |-> w, height |-> h, layout |-> layout,
         count |-> batch * w * h * params.channels]

\* The switch without its Signed32 case: the value falls to the default.
Instantiation_NoSigned32Case(outType) ==
    CASE outType = "QAsymmU8" -> "uint8_t"
      [] OTHER -> "float"

\* The switch of main() on outputType: the element type of the
\* PrepareImageTensor instantiation each case label selects.
Instantiation(outType) ==
    CASE outType = "Signed32" -> "int"
      [] outType = "QAsymmU8" -> "uint8_t"
      [] OTHER -> "float"

\* The call with newWidth passed for both dimensions.
SwitchOutputType_WidthTwice(outType, img, nWidth, nHeight, params, layout) ==
    PrepareImageTensor(Instantiation(outType), img, nWidth, nWidth, params,
                       batchSize, layout)

\* The call every case of the switch makes, with the arguments main() passes.
SwitchOutputType(outType, img, nWidth, nHeight, params, layout) ==
    PrepareImageTensor(Instantiation(outType), img, nWidth, nHeight, params,
                       batchSize, layout)

\* How many of the n elements may have reached the disk when the write
\* call returns (the rest, if the stream saw no error, is in its buffer).
WritePoints(n) == {k \in {0, 1, n - 1, n} : 0 <= k /\ k <= n}

----------------------------------------------------------------------------
VARIABLES
    pc,                   \* where main() is
    cmdline,              \* the CommandLineProcessor's fields
    inputPath,            \* file system: the input path
    outputPath,           \* file system: the output path
    modelFormat,          \* main()'s locals
    outputType,
    newWidth,
    newHeight,
    outputLayout,
    normParams,
    imageDataContainers,  \* std::vector<TContainer>
    imageTensorFile,      \* std::ofstream: handle, state flags, buffer
    result,               \* <<>> while running, <<r>> once main() returned r
    log,                  \* messages written to std::cerr / ARMNN_LOG
    phases,               \* history: the pipeline phases gone through
    history               \* history: facts the properties refer to

vars ==
    <<pc, cmdline, inputPath, outputPath, modelFormat, outputType, newWidth,
      newHeight, outputLayout, normParams, imageDataContainers,
      imageTensorFile, result, log, phases, history>>

locals == <<modelFormat, outputType, newWidth, newHeight, outputLayout, normParams>>

\* main() is over: it returned, or an exception left it (std::terminate).
Terminal == {"returned", "terminated"}

NoHistory ==
    [existedAtInvocation |-> FALSE,  \* a file was at the output path at start
     accepted |-> FALSE,             \* ProcessCommandLine returned true
     appeared |-> FALSE,             \* another process created the output file
     overwritten |-> FALSE,          \* open() truncated somebody else's file
     instantiated |-> <<>>,          \* PrepareImageTensor instantiations run
     loadFailed |-> FALSE,
     openFailed |-> FALSE,
     writeFailed |-> FALSE,          \* not all elements reached the disk
     opens |-> 0,                    \* calls of open()
     writtenAs |-> "none",           \* element type the visitor wrote
     handed |-> 0]                   \* elements handed to the serializer

Init ==
    /\ pc = "start"
    /\ cmdline = EmptyCommandLine
    /\ inputPath \in InputStates
    /\ outputPath \in OutputStates
    /\ modelFormat = "unset"
    /\ outputType = "unset"
    /\ newWidth = 0
    /\ newHeight = 0
    /\ outputLayout = "unset"
    /\ normParams = GetNormalizationParameters("unset", "unset")
    /\ imageDataContainers = <<>>
    /\ imageTensorFile = [handle |-> "unopened", good |-> TRUE, buffered |-> 0]
    /\ result = <<>>
    /\ log = <<>>
    /\ phases = <<>>
    /\ history = NoHistory

\* main() returns -1 after the message msg.
ReturnFailure(msg) ==
    /\ pc' = "returned"
    /\ result' = <<-1>>
    /\ log' = Append(log, msg)
    /\ phases' = Append(phases, "Failed")

\* CommandLineProcessor::ProcessCommandLine, and main()'s return -1 when it
\* returns false.  The options are stored in the fields by po::notify, which
\* is not reached with --help and throws before storing when a required
\* option is missing.
ProcessCommandLine ==
    /\ pc = "start"
    /\ \E parsed \in ParseOutcomes, i \in InputNames, f \in ModelFormatArgs,
          o \in OutputNames, z \in OutputTypeArgs, w \in NewWidthArgs,
          h \in NewHeightArgs, l \in LayoutArgs :
         LET existed == outputPath.kind = "original"
             inMsg == ValidateInputFile(i, inputPath)
             layoutMsg == ValidateLayout(l)
             outMsg == ValidateOutputFile(o, outputPath)
             msg == IF inMsg # "" THEN inMsg
                    ELSE IF layoutMsg # "" THEN layoutMsg ELSE outMsg
         IN  IF parsed # "ok"
             THEN /\ ReturnFailure(IF parsed = "help" THEN "usage" ELSE "po::error")
                  /\ history' = [history EXCEPT !.existedAtInvocation = existed]
                  /\ UNCHANGED cmdline
             ELSE /\ cmdline' = [m_InputFileName |-> i, m_Layout |-> l,
                                 m_OutputFileName |-> o, m_NewWidth |-> w,
                                 m_NewHeight |-> h, m_ModelFormat |-> f,
                                 m_OutputType |-> z]
                  /\ IF msg # ""
                     THEN /\ ReturnFailure(msg)
                          /\ history' = [history EXCEPT !.existedAtInvocation = existed]
                     ELSE /\ pc' = "configure"
                          /\ history' = [history EXCEPT
                                           !.existedAtInvocation = existed,
                                           !.accepted = TRUE]
                          /\ UNCHANGED <<result, log, phases>>
    /\ UNCHANGED <<inputPath, outputPath, locals, imageDataContainers, imageTensorFile>>

\* The first getter of main() that throws, in the order main() calls them;
\* "none" when none does.
FirstThrow(c) ==
    LET seq == <<GetModelFormat(c.m_ModelFormat).threw,
                 GetOutputType(c.m_OutputType).threw,
                 GetNewWidth(c.m_NewWidth).threw,
                 GetNewHeight(c.m_NewHeight).threw,
                 GetLayout(c.m_Layout).threw>>
        thrown == {k \in 1..Len(seq) : seq[k] # "none"}
    IN  IF thrown = {} THEN "none"
        ELSE seq[CHOOSE k \in thrown : \A j \in thrown : k <= j]

\* main(): the getters and GetNormalizationParameters.  An exception of a
\* getter is caught nowhere: std::terminate ends the process (abort), with
\* the runtime's message about the uncaught exception.
ReadConfiguration ==
    /\ pc = "configure"
    /\ IF FirstThrow(cmdline) # "none"
       THEN /\ pc' = "terminated"
            /\ log' = Append(log, "terminate: " \o FirstThrow(cmdline))
            /\ phases' = Append(phases, "Failed")
            /\ UNCHANGED locals
       ELSE /\ modelFormat' = GetModelFormat(cmdline.m_ModelFormat).value
            /\ outputType' = GetOutputType(cmdline.m_OutputType).value
            /\ newWidth' = GetNewWidth(cmdline.m_NewWidth).value
            /\ newHeight' = GetNewHeight(cmdline.m_NewHeight).value
            /\ outputLayout' = GetLayout(cmdline.m_Layout).value
            /\ normParams' = GetNormalizationParameters(modelFormat', outputType')
            /\ pc' = "prepare"
            /\ phases' = Append(phases, "Configured")
            /\ UNCHANGED log
    /\ UNCHANGED <<cmdline, inputPath, outputPath, imageDataContainers,
                   imageTensorFile, result, history>>

\* main(): the try block, when PrepareImageTensor returns.  Loading,
\* resizing and normalizing all happen inside the one call; its result is
\* pushed onto imageDataContainers.
PrepareTensor ==
    /\ pc = "prepare"
    /\ inputPath.decodable
    /\ LET tensor == SwitchOutputType(outputType, inputPath, newWidth, newHeight,
                                      normParams, outputLayout)
       IN  /\ imageDataContainers' = Append(imageDataContainers, tensor)
           /\ history' = [history EXCEPT
                            !.instantiated = Append(@, tensor.elemType)]
    /\ phases' = phases \o <<"Loaded", "Resized", "Normalized">>
    /\ pc' = "open"
    /\ UNCHANGED <<cmdline, inputPath, outputPath, locals, imageTensorFile,
                   result, log>>

\* main(): the catch of InferenceTestImageException, thrown by the image
\* loader inside PrepareImageTensor when the file cannot be decoded.
LoadFailed ==
    /\ pc = "prepare"
    /\ ~inputPath.decodable
    /\ ReturnFailure("Failed to load image file")
    /\ history' = [history EXCEPT
                     !.loadFailed = TRUE,
                     !.instantiated = Append(@, Instantiation(outputType))]
    /\ UNCHANGED <<cmdline, inputPath, outputPath, locals, imageDataContainers,
                   imageTensorFile>>

\* imageTensorFile.open(outputPath, std::ofstream::out) succeeding: mode
\* `out` alone creates the file or truncates the one that is there.
OpenOutput ==
    /\ pc = "open"
    /\ outputPath.kind \in {"absent", "original", "tensor"}
    /\ outputPath' = [kind |-> "tensor", length |-> 0]
    /\ imageTensorFile' = [handle |-> "open", good |-> TRUE, buffered |-> 0]
    /\ history' = [history EXCEPT
                     !.opens = @ + 1,
                     !.overwritten = @ \/ outputPath.kind = "original"]
    /\ pc' = "write"
    /\ UNCHANGED <<cmdline, inputPath, locals, imageDataContainers, result,
                   log, phases>>

\* open() failing (no permission to create the file, no descriptor left, ...:
\* nothing ValidateOutputFile tested), is_open() false, return -1.
OpenFailed ==
    /\ pc = "open"
    /\ imageTensorFile' = [imageTensorFile EXCEPT !.good = FALSE]
    /\ ReturnFailure("Failed to open output file")
    /\ history' = [history EXCEPT !.opens = @ + 1, !.openFailed = TRUE]
    /\ UNCHANGED <<cmdline, inputPath, outputPath, locals, imageDataContainers>>

\* boost::apply_visitor(WriteImageTensorImpl, imageDataContainers[0]): the
\* elements go through the stream's buffer.  Either the stream saw no error,
\* k elements are on disk and the rest is buffered; or a write failed with
\* k < count elements on disk, and the stream's error state is set.
WriteImageTensor ==
    /\ pc = "write"
    /\ LET tensor == imageDataContainers[1]
       IN  \E k \in WritePoints(tensor.count), failed \in BOOLEAN :
             /\ failed => k < tensor.count
             /\ outputPath' = [outputPath EXCEPT !.length = k]
             /\ imageTensorFile' =
                  [imageTensorFile EXCEPT
                     !.good = ~failed,
                     !.buffered = IF failed THEN 0 ELSE tensor.count - k]
             /\ history' = [history EXCEPT
                              !.writtenAs = tensor.elemType,
                              !.handed = tensor.count,
                              !.writeFailed = failed]
    /\ pc' = "check"
    /\ UNCHANGED <<cmdline, inputPath, locals, imageDataContainers, result,
                   log, phases>>

\* The failed-write exit without its imageTensorFile.close().
WriteFailed_NoClose ==
    /\ pc = "check"
    /\ ~imageTensorFile.good
    /\ ReturnFailure("Failed to write to output file")
    /\ UNCHANGED <<cmdline, inputPath, outputPath, locals, imageDataContainers,
                   imageTensorFile, history>>

\* if (!imageTensorFile): log, close, return -1.  The file stays as it is.
WriteFailed ==
    /\ pc = "check"
    /\ ~imageTensorFile.good
    /\ imageTensorFile' = [imageTensorFile EXCEPT !.handle = "closed"]
    /\ ReturnFailure("Failed to write to output file")
    /\ UNCHANGED <<cmdline, inputPath, outputPath, locals, imageDataContainers,
                   history>>

\* imageTensorFile.close() on the success path: the buffer is flushed.  If
\* the flush fails, close() sets failbit, which nothing reads afterwards.
CloseOutput ==
    /\ pc = "check"
    /\ imageTensorFile.good
    /\ \E flushed \in BOOLEAN :
         /\ ~flushed => imageTensorFile.buffered > 0
         /\ outputPath' =
              [outputPath EXCEPT
                 !.length = IF flushed THEN @ + imageTensorFile.buffered ELSE @]
         /\ imageTensorFile' =
              [handle |-> "closed", good |-> flushed, buffered |-> 0]
         /\ history' = [history EXCEPT !.writeFailed = ~flushed]
    /\ phases' = Append(phases, "Serialized")
    /\ pc' = "return"
    /\ UNCHANGED <<cmdline, inputPath, locals, imageDataContainers, result, log>>

\* return 0;
ReturnSuccess ==
    /\ pc = "return"
    /\ pc' = "returned"
    /\ result' = <<0>>
    /\ phases' = Append(phases, "Done")
    /\ UNCHANGED <<cmdline, inputPath, outputPath, locals, imageDataContainers,
                   imageTensorFile, log, history>>

\* The environment: while main() runs, another process creates a file at
\* the output path.  (A file created before main() starts is an initial
\* state.)
OtherProcessCreatesFile ==
    /\ pc \notin Terminal \cup {"start"}
    /\ outputPath.kind = "absent"
    /\ outputPath' = [kind |-> "original", length |-> 0]
    /\ history' = [history EXCEPT !.appeared = TRUE]
    /\ UNCHANGED <<pc, cmdline, inputPath, locals, imageDataContainers,
                   imageTensorFile, result, log, phases>>

Next ==
    \/ ProcessCommandLine
    \/ ReadConfiguration
    \/ PrepareTensor
    \/ LoadFailed
    \/ OpenOutput
    \/ OpenFailed
    \/ WriteImageTensor
    \/ WriteFailed
    \/ CloseOutput
    \/ ReturnSuccess
    \/ OtherProcessCreatesFile

Spec == Init /\ [][Next]_vars

TypeOK ==
    /\ pc \in {"start", "configure", "prepare", "open", "write", "check",
               "return", "returned", "terminated"}
    /\ result \in {<<>>, <<0>>, <<-1>>}
    /\ newWidth \in 0..(UINT_RANGE - 1)
    /\ newHeight \in 0..(UINT_RANGE - 1)
    /\ Len(imageDataContainers) <= 1

----------------------------------------------------------------------------
\* Properties.

Range(s) == {s[k] : k \in 1..Len(s)}
Last(s) == s[Len(s)]

\* The output file holds nothing: it is not there, or it is empty.
AbsentOrEmpty(p) ==
    \/ p.kind \in {"absent", "noparent"}
    \/ p.kind = "tensor" /\ p.length = 0

\* C1: if a file is at the output path when the tool is invoked, the
\* invocation fails (non-zero result) before any image is loaded and before
\* the output path is opened or written, and the file's contents are
\* unmodified at termination.
C1_ExistingOutputFails ==
    history.existedAtInvocation =>
        /\ pc = "returned"
        /\ result = <<-1>>
        /\ history.instantiated = <<>>
        /\ "Loaded" \notin Range(phases)
        /\ history.opens = 0
        /\ imageTensorFile.handle = "unopened"
        /\ outputPath.kind = "original"

C1_Witness ==
    /\ history.existedAtInvocation
    /\ pc = "returned"
    /\ cmdline.m_OutputFileName # ""
    /\ log = <<"Output file already exists">>

\* C2: the orchestrator never overwrites an existing file: if a file appears
\* at the output path between the validation and the open, the open fails,
\* the run ends in Failed and that file is left unchanged.
C2_ExclusiveCreation ==
    /\ ~history.overwritten
    /\ (history.appeared /\ history.opens > 0) =>
           /\ history.openFailed
           /\ outputPath.kind = "original"
           /\ pc \in Terminal => (result # <<0>> /\ Last(phases) = "Failed")

\* C3: when a write error occurs part-way through serialization, the run
\* ends in failure and the output file is, at termination, absent or empty:
\* a file holding only a prefix of the tensor is never left behind.
C3_NoPartialFile ==
    (pc \in Terminal /\ history.writeFailed) =>
        /\ result # <<0>>
        /\ AbsentOrEmpty(outputPath)

PhaseOrder ==
    <<"Configured", "Loaded", "Resized", "Normalized", "Serialized", "Done">>

\* C4: every invocation goes through Configured, Loaded, Resized,
\* Normalized, Serialized, Done in that order, none skipped or revisited,
\* and ends in exactly one of Done or Failed; Failed is terminal; and the
\* result is 0 if and only if the run reached Done with all
\* width*height*channels elements written.
C4_LinearPhases ==
    /\ \E n \in 0..Len(PhaseOrder) :
         \/ phases = SubSeq(PhaseOrder, 1, n)
         \/ phases = SubSeq(PhaseOrder, 1, n) \o <<"Failed">>
    /\ pc \in Terminal <=> (phases # <<>> /\ Last(phases) \in {"Done", "Failed"})
    /\ pc \in Terminal =>
         (result = <<0>> <=>
            /\ Last(phases) = "Done"
            /\ Len(imageDataContainers) = 1
            /\ outputPath.kind = "tensor"
            /\ outputPath.length =
                 imageDataContainers[1].width * imageDataContainers[1].height
                   * Channels)

\* C5: whenever ProcessCommandLine returns true, the model format, the
\* output type and the layout each resolve to one of their enumerated
\* values: none of GetModelFormat, GetOutputType, GetLayout throws.
C5_AcceptedIsValid ==
    history.accepted =>
        /\ GetModelFormat(cmdline.m_ModelFormat).threw = "none"
        /\ GetOutputType(cmdline.m_OutputType).threw = "none"
        /\ GetLayout(cmdline.m_Layout).threw = "none"

\* The element type the specification assigns to each output type.
ElementTypeOf(outType) ==
    CASE outType = "Float32" -> "float"
      [] outType = "Signed32" -> "int"
      [] outType = "QAsymmU8" -> "uint8_t"

\* C6: for every configured output element type exactly one normalize
\* instantiation runs per invocation, of the configured element type; after
\* the dispatch the container list holds exactly one tensor, and the
\* serializer writes that tensor with the same element type.
C6_OneInstantiation ==
    /\ Len(history.instantiated) <= 1
    /\ pc \in {"start", "configure", "prepare"} => history.instantiated = <<>>
    /\ "Normalized" \in Range(phases) =>
         /\ history.instantiated = <<ElementTypeOf(outputType)>>
         /\ Len(imageDataContainers) = 1
         /\ imageDataContainers[1].elemType = ElementTypeOf(outputType)
    /\ history.loadFailed =>
         history.instantiated = <<ElementTypeOf(outputType)>>
    /\ history.writtenAs # "none" =>
         history.writtenAs = ElementTypeOf(outputType)

C6_Witness ==
    /\ pc = "returned"
    /\ result = <<0>>
    /\ outputType = "Signed32"
    /\ history.instantiated = <<"int">>
    /\ history.writtenAs = "int"

\* A string that is a number: an optional sign, then digits only.
IsNumeric(str) ==
    LET body == IF str # <<>> /\ Head(str) \in {"-", "+"} THEN Tail(str) ELSE str
    IN  body # <<>> /\ \A k \in 1..Len(body) : body[k] \in DigitChars

\* A failure of one of the kinds C7 lists has happened.
SomeFailure ==
    \/ /\ history.accepted
       /\ \/ GetModelFormat(cmdline.m_ModelFormat).threw # "none"
          \/ GetOutputType(cmdline.m_OutputType).threw # "none"
          \/ ~IsNumeric(cmdline.m_NewWidth)
          \/ ~IsNumeric(cmdline.m_NewHeight)
    \/ history.loadFailed
    \/ history.openFailed
    \/ history.writeFailed

\* C7: every failure at any step (unknown front-end or output type,
\* non-numeric width or height, image load failure, output open failure,
\* write failure) aborts the remaining steps and ends the invocation in
\* Failed with a reported message and a non-zero result; when image loading
\* fails the output file is never opened or created.
C7_EveryFailureAborts ==
    /\ (pc \in Terminal /\ SomeFailure) =>
         /\ Last(phases) = "Failed"
         /\ "Done" \notin Range(phases)
         /\ log # <<>>
         /\ result # <<0>>
    /\ history.loadFailed =>
         /\ history.opens = 0
         /\ outputPath.kind \in {"absent", "original"}
         /\ ~history.overwritten

\* C8: the output file handle is opened only in the serialization step and
\* closed on every exit path that follows a successful open; no terminal
\* state has the handle open, and no handle is open before the tensor has
\* been fully prepared.
C8_HandleScoped ==
    /\ imageTensorFile.handle = "open" => pc \in {"write", "check"}
    /\ pc \in Terminal => imageTensorFile.handle # "open"
    /\ (pc \in Terminal /\ history.opens > 0 /\ ~history.openFailed) =>
         imageTensorFile.handle = "closed"
    /\ history.opens <= 1
    /\ (imageTensorFile.handle # "unopened" \/ history.opens > 0) =>
         /\ Len(imageDataContainers) = 1
         /\ SubSeq(PhaseOrder, 1, 4) = SubSeq(phases, 1, 4)

C8_Witness ==
    /\ pc = "returned"
    /\ result = <<-1>>
    /\ history.writeFailed
    /\ imageTensorFile.handle = "closed"

\* The dimension the pipeline resolves from a requested one.
Resolved(requested, source) == IF requested # 0 THEN requested ELSE source

C10_DimensionsAsSupplied ==
    "Configured" \in Range(phases) =>
        /\ newWidth = stoi(cmdline.m_NewWidth).value
        /\ newHeight = stoi(cmdline.m_NewHeight).value
        /\ stoi(cmdline.m_NewWidth).value >= 0
        /\ stoi(cmdline.m_NewHeight).value >= 0

====
